---- MODULE Spec2Model ----
(***************************************************************************)
(* A model of github_trending_bot (src/github_trending_bot/bot.py): the    *)
(* long-polling main loop, the Telegram client, the command parser and     *)
(* dispatcher, the command handlers and the GitHub search client.          *)
(*                                                                         *)
(* A Python str is modelled as a sequence of one-character strings, so     *)
(* that splitting, joining, escaping and integer parsing are computed      *)
(* character by character, as the code computes them.                      *)
(***************************************************************************)
EXTENDS Integers, Sequences, FiniteSets, TLC

(***************************************************************************)
(* Module-level constants of bot.py (lines 14-35).                         *)
(***************************************************************************)
HELP_COMMAND ==
    <<"/", "h", "e", "l", "p">>

START_COMMAND ==
    <<"/", "s", "t", "a", "r", "t">>

SHOW_COMMAND ==
    <<"/", "s", "h", "o", "w">>

ECHO_COMMAND ==
    <<"/", "e", "c", "h", "o">>

TIMESTAMP_COMMAND ==
    <<"/", "t", "i", "m", "e", "s", "t", "a", "m", "p">>

DEFAULT_AGE_IN_DAYS == 7

DEFAULT_TELEGRAM_API_LONG_POLLING_TIMEOUT == 60

TELEGRAM_UPDATES_LIMIT == 5

\* '\n\n'.join of the two usage lines (lines 30-33)
HELP_TEXT ==
    <<"/", "s", "h", "o", "w", " ", "[", "D", "A", "Y", "S", "]", " ", "-", " ", "s", "h", "o",
      "w", " ", "t", "r", "e", "n", "d", "i", "n", "g", " ", "r", "e", "p", "o", "s", "i", "t",
      "o", "r", "i", "e", "s", " ", "c", "r", "e", "a", "t", "e", "d", " ", "i", "n", " ", "t",
      "h", "e", " ", "l", "a", "s", "t", " ", "D", "A", "Y", "S", "\n", "\n", "/", "t", "i", "m",
      "e", "s", "t", "a", "m", "p", " ", "[", "%", "Y", "-", "%", "m", "-", "%", "d", "T", "%",
      "H", ":", "%", "M", ":", "%", "S", "]", " ", "-", " ", "c", "o", "n", "v", "e", "r", "t",
      " ", "U", "T", "C", " ", "d", "a", "t", "e", " ", "s", "t", "r", "i", "n", "g", " ", "t",
      "o", " ", "U", "n", "i", "x", " ", "t", "i", "m", "e", "s", "t", "a", "m", "p">>

\* '★', one code point
STAR_SYMBOL == "U+2605"

\* '`', one code point
BACKTICK == "U+0060"

(***************************************************************************)
(* String literals that occur in the code.                                 *)
(***************************************************************************)
\* 'oops, something went wrong' (lines 271 and 309)
OOPS_TEXT ==
    <<"o", "o", "p", "s", ",", " ", "s", "o", "m", "e", "t", "h", "i", "n", "g", " ", "w", "e",
      "n", "t", " ", "w", "r", "o", "n", "g">>

\* TimestampCommand._USAGE_STRING (line 141)
USAGE_STRING ==
    <<"u", "s", "a", "g", "e", ":", " ", "/", "t", "i", "m", "e", "s", "t", "a", "m", "p", " ",
      "%", "Y", "-", "%", "m", "-", "%", "d", "T", "%", "H", ":", "%", "M", ":", "%", "S">>

\* The fixed parts of the f-strings of lines 111, 133, 137 and 157
UNKNOWN_PREFIX ==
    <<"u", "n", "k", "n", "o", "w", "n", " ", "c", "o", "m", "m", "a", "n", "d", " ">>

UNKNOWN_SUFFIX ==
    <<",", " ", "t", "y", "p", "e", " ", BACKTICK, "/", "h", "e", "l", "p", BACKTICK>>

ONLY_ONE_PREFIX ==
    <<"t", "h", "i", "s", " ", "c", "o", "m", "m", "a", "n", "d", " ", "a", "c", "c", "e", "p",
      "t", "s", " ", "o", "n", "l", "y", " ", "o", "n", "e", " ", "a", "r", "g", "u", "m", "e",
      "n", "t", ",", " ", "g", "o", "t", " ">>

SHOULD_BE_INT_SUFFIX ==
    <<" ", "s", "h", "o", "u", "l", "d", " ", "b", "e", " ", "a", "n", " ", "i", "n", "t", "e",
      "g", "e", "r">>

TOO_MANY_PREFIX ==
    <<"t", "o", "o", " ", "m", "a", "n", "y", " ", "a", "r", "g", "u", "m", "e", "n", "t", "s",
      ",", " ">>

\* The fixed parts of the f-strings of lines 376-381
A_HREF_OPEN ==
    <<"<", "a", " ", "h", "r", "e", "f", "=", "\"">>

A_HREF_CLOSE ==
    <<"\"", ">">>

A_END ==
    <<"<", "/", "a", ">", " ", "-", " ">>

(***************************************************************************)
(* Python built-ins on str and int that the code calls.                    *)
(***************************************************************************)
Digits == <<"0", "1", "2", "3", "4", "5", "6", "7", "8", "9">>

IsDigit(c) == \E d \in 1..10 : Digits[d] = c

DigitValue(c) == (CHOOSE d \in 1..10 : Digits[d] = c) - 1

\* str.split(sep) for a one-character sep: every occurrence of sep ends a
\* token, so n separators always give n + 1 tokens, empty ones included.
RECURSIVE StrSplit(_, _)
StrSplit(s, sep) ==
    IF s = <<>> THEN << <<>> >>
    ELSE IF Head(s) = sep THEN << <<>> >> \o StrSplit(Tail(s), sep)
    ELSE LET rest == StrSplit(Tail(s), sep)
         IN  << <<Head(s)>> \o Head(rest) >> \o Tail(rest)

\* sep.join(parts)
RECURSIVE StrJoin(_, _)
StrJoin(sep, parts) ==
    IF parts = <<>> THEN <<>>
    ELSE IF Len(parts) = 1 THEN Head(parts)
    ELSE Head(parts) \o sep \o StrJoin(sep, Tail(parts))

\* str(n) for an int n
RECURSIVE NatToStr(_)
NatToStr(n) ==
    IF n < 10 THEN <<Digits[n + 1]>>
    ELSE NatToStr(n \div 10) \o <<Digits[(n % 10) + 1]>>

IntToStr(n) == IF n < 0 THEN <<"-">> \o NatToStr(-n) ELSE NatToStr(n)

Whitespace == {" ", "\n", "\t", "\r"}

RECURSIVE LStrip(_)
LStrip(s) ==
    IF s # <<>> /\ Head(s) \in Whitespace THEN LStrip(Tail(s)) ELSE s

RECURSIVE RStrip(_)
RStrip(s) ==
    IF s # <<>> /\ s[Len(s)] \in Whitespace
    THEN RStrip(SubSeq(s, 1, Len(s) - 1)) ELSE s

\* The digits of an int literal: digits, single underscores between digits.
IsIntBody(b) ==
    /\ b # <<>>
    /\ IsDigit(b[1])
    /\ IsDigit(b[Len(b)])
    /\ \A i \in 1..Len(b) : IsDigit(b[i]) \/ b[i] = "_"
    /\ \A i \in 1..(Len(b) - 1) : ~(b[i] = "_" /\ b[i + 1] = "_")

RECURSIVE IntBodyValue(_, _)
IntBodyValue(b, acc) ==
    IF b = <<>> THEN acc
    ELSE IF Head(b) = "_" THEN IntBodyValue(Tail(b), acc)
    ELSE IntBodyValue(Tail(b), 10 * acc + DigitValue(Head(b)))

\* int(s) for a str s: surrounding whitespace is stripped, one sign is
\* allowed; anything else raises ValueError.
PyInt(s) ==
    LET t    == RStrip(LStrip(s))
        sgn  == t # <<>> /\ Head(t) \in {"+", "-"}
        body == IF sgn THEN Tail(t) ELSE t
    IN  IF IsIntBody(body)
        THEN [exc   |-> "none",
              value |-> IF sgn /\ Head(t) = "-"
                        THEN 0 - IntBodyValue(body, 0)
                        ELSE IntBodyValue(body, 0)]
        ELSE [exc |-> "ValueError", value |-> 0]

\* html.escape(s) with quote=True, the default
HtmlEscapeChar(c) ==
    CASE c = "&"  -> <<"&", "a", "m", "p", ";">>
      [] c = "<"  -> <<"&", "l", "t", ";">>
      [] c = ">"  -> <<"&", "g", "t", ";">>
      [] c = "\"" -> <<"&", "q", "u", "o", "t", ";">>
      [] c = "'"  -> <<"&", "#", "x", "2", "7", ";">>
      [] OTHER    -> <<c>>

RECURSIVE HtmlEscape(_)
HtmlEscape(s) ==
    IF s = <<>> THEN <<>> ELSE HtmlEscapeChar(Head(s)) \o HtmlEscape(Tail(s))

\* Names a value once, for the expression that uses it: K(value)
Bind(value, K(_)) == K(value)

(***************************************************************************)
(* Exceptions.  An operation that can raise returns a record whose exc     *)
(* field is "none" or the name of the class raised.                        *)
(***************************************************************************)
\* class statements of lines 38-63, and the built-in classes the code meets
BaseClass(cls) ==
    CASE cls = "InvalidConfig"    -> "Error"
      [] cls = "ApiError"         -> "Error"
      [] cls = "GithubApiError"   -> "ApiError"
      [] cls = "TelegramApiError" -> "ApiError"
      [] cls = "InvalidCommand"   -> "Error"
      [] cls = "ParseError"       -> "InvalidCommand"
      [] cls = "Error"            -> "Exception"
      [] OTHER                    -> "Exception"

\* isinstance(an instance of cls, of): what an except clause tests
RECURSIVE IsSubclass(_, _)
IsSubclass(cls, of) ==
    \/ cls = of
    \/ cls # "Exception" /\ IsSubclass(BaseClass(cls), of)

(***************************************************************************)
(* JSON values.  A value is a record with a kind ("dict", "list", "str",   *)
(* "int", "bool", "null"); a key a dict does not have is a field of kind   *)
(* "absent".                                                               *)
(***************************************************************************)
Absent == [kind |-> "absent", str |-> <<>>, int |-> 0]

JNull == [kind |-> "null", str |-> <<>>, int |-> 0]

JStr(s) == [kind |-> "str", str |-> s, int |-> 0]

JInt(n) == [kind |-> "int", str |-> <<>>, int |-> n]

\* isinstance(value, expected_type); bool is a subclass of int
IsInstanceOf(kind, expected_type) ==
    \/ kind \in expected_type
    \/ kind = "bool" /\ "int" \in expected_type

\* _get_or_raise: item[key] of something that is no dict raises TypeError
\* (a list, a str, a number or None indexed by a str), which this function
\* does not catch.
get_or_raise(item, key, expected_type, exception_class) ==
    IF item.kind # "dict"
    THEN [exc |-> "TypeError", key |-> key, value |-> Absent]
    ELSE IF item[key].kind = "absent"
    THEN [exc |-> exception_class, key |-> key, value |-> Absent]
    ELSE IF ~IsInstanceOf(item[key].kind, expected_type)
    THEN [exc |-> exception_class, key |-> key, value |-> Absent]
    ELSE [exc |-> "none", key |-> key, value |-> item[key]]

(***************************************************************************)
(* parse_message_text                                                      *)
(***************************************************************************)
\* A variant of parse_message_text that splits as text.split() does, runs
\* of spaces being one separator
parse_runs_of_spaces(text) ==
    IF text = <<>>
    THEN [exc |-> "ParseError", name |-> <<>>, args |-> <<>>]
    ELSE LET splitted == SelectSeq(StrSplit(text, " "), LAMBDA token : token # <<>>)
         IN  IF splitted = <<>>
             THEN [exc |-> "IndexError", name |-> <<>>, args |-> <<>>]
             ELSE [exc |-> "none", name |-> Head(splitted), args |-> Tail(splitted)]

\* A variant of parse_message_text without the test of text
parse_whatever_text(text) ==
    LET splitted == StrSplit(text, " ")
    IN  [exc |-> "none", name |-> Head(splitted), args |-> Tail(splitted)]

parse_message_text(text) ==
    IF text = <<>>
    THEN [exc |-> "ParseError", name |-> <<>>, args |-> <<>>]
    ELSE LET splitted == StrSplit(text, " ")
         IN  [exc |-> "none", name |-> Head(splitted), args |-> Tail(splitted)]

ParsedMessage(name, args) == [name |-> name, args |-> args]

(***************************************************************************)
(* datetime, as far as the code uses it.  A date is its proleptic          *)
(* Gregorian ordinal (0001-01-01 is day 1, 9999-12-31 is day 3652059).     *)
(***************************************************************************)
IsLeapYear(y) == (y % 4 = 0) /\ ((y % 100 # 0) \/ (y % 400 = 0))

DaysBeforeYear(y) ==
    (y - 1) * 365 + ((y - 1) \div 4) - ((y - 1) \div 100) + ((y - 1) \div 400)

DaysInMonth(y, m) ==
    IF m = 2 THEN (IF IsLeapYear(y) THEN 29 ELSE 28)
    ELSE IF m \in {4, 6, 9, 11} THEN 30 ELSE 31

RECURSIVE DaysBeforeMonth(_, _)
DaysBeforeMonth(y, m) ==
    IF m = 1 THEN 0 ELSE DaysBeforeMonth(y, m - 1) + DaysInMonth(y, m - 1)

ToOrdinal(y, m, d) == DaysBeforeYear(y) + DaysBeforeMonth(y, m) + d

\* datetime.utcnow(): the instant of the run, 2026-11-06T12:00:00
UtcNow == [ordinal |-> 739926, second |-> 43200]

\* naive_d_time.replace(tzinfo=utc).timestamp(), truncated by int()
UnixTimestamp(ordinal, second) == (ordinal - 719163) * 86400 + second

\* utcnow() - timedelta(days=age_in_days): timedelta raises OverflowError
\* beyond 999999999 days, the subtraction when the date leaves
\* 0001-01-01..9999-12-31.
SubtractDays(ordinal, days) ==
    IF days > 999999999 \/ days < 0 - 999999999
    THEN [exc |-> "OverflowError", ordinal |-> 0]
    ELSE IF ordinal - days < 1 \/ ordinal - days > 3652059
    THEN [exc |-> "OverflowError", ordinal |-> 0]
    ELSE [exc |-> "none", ordinal |-> ordinal - days]

\* One field of the strptime format: one or two digits, value in lo..hi.
\* (A one-digit value may be written with a leading zero; "0" and "00"
\* fall outside lo..hi when lo is 1.)
StrpField(f, lo, hi) ==
    /\ Len(f) \in {1, 2}
    /\ \A i \in 1..Len(f) : IsDigit(f[i])
    /\ IntBodyValue(f, 0) \in lo..hi

\* datetime.strptime(date_string, '%Y-%m-%dT%H:%M:%S'): the format's regex
\* is matched ignoring case and must consume the whole string; the fields
\* are then handed to the datetime constructor, which checks the year, the
\* day of the month and the second.  Any failure is a ValueError.
strptime(date_string) ==
    LET bad    == [exc |-> "ValueError", ordinal |-> 0, second |-> 0]
        dashes == StrSplit(date_string, "-")
    IN  IF Len(dashes) # 3 THEN bad
        ELSE
        LET Y    == dashes[1]
            mo   == dashes[2]
            tail == [i \in 1..Len(dashes[3]) |->
                        IF dashes[3][i] = "t" THEN "T" ELSE dashes[3][i]]
            rest == StrSplit(tail, "T")
        IN  IF Len(rest) # 2 THEN bad
            ELSE
            LET d      == rest[1]
                colons == StrSplit(rest[2], ":")
            IN  IF Len(colons) # 3 THEN bad
                ELSE IF ~(/\ Len(Y) = 4
                          /\ \A i \in 1..4 : IsDigit(Y[i])
                          /\ StrpField(mo, 1, 12)
                          /\ StrpField(d, 1, 31)
                          /\ StrpField(colons[1], 0, 23)
                          /\ StrpField(colons[2], 0, 59)
                          /\ StrpField(colons[3], 0, 61)) THEN bad
                ELSE
                LET year   == IntBodyValue(Y, 0)
                    month  == IntBodyValue(mo, 0)
                    day    == IntBodyValue(d, 0)
                    hour   == IntBodyValue(colons[1], 0)
                    minute == IntBodyValue(colons[2], 0)
                    sec    == IntBodyValue(colons[3], 0)
                IN  IF year < 1 \/ day > DaysInMonth(year, month) \/ sec > 59
                    THEN bad
                    ELSE [exc     |-> "none",
                          ordinal |-> ToOrdinal(year, month, day),
                          second  |-> hour * 3600 + minute * 60 + sec]

(***************************************************************************)
(* Effects.  What the process does to the outside world is recorded as a   *)
(* sequence of events: HTTP requests ("post_getUpdates",                   *)
(* "post_sendMessage", "github_get"), calls of send_message, sleeps,       *)
(* writes of the offset file ("write_offset"), the records main logs       *)
(* ("error_get_updates", line 256; "info_no_message", line 262;            *)
(* "error_executing", line 270; "error_send_message", line 281) and the    *)
(* traceback of an exception nothing catches ("traceback").  num is the    *)
(* event's number (offset, chat_id, seconds, update_id), exc the exception *)
(* a record logged with exc_info=True or a traceback shows.                *)
(***************************************************************************)
Event(ev, num) ==
    [ev |-> ev, num |-> num, limit |-> 0, timeout |-> 0, text |-> <<>>,
     parse_mode |-> <<>>, disable_web_page_preview |-> FALSE,
     disable_notification |-> FALSE, exc |-> "none"]

LogRecord(ev, exc) == [Event(ev, 0) EXCEPT !.exc = exc]

\* How an HTTP exchange can fail: requests raises (a Timeout, say) or
\* raise_for_status raises HTTPError; both are RequestExceptions.
NetFailures == {"Timeout", "HTTPError"}

(***************************************************************************)
(* GithubApi and find_trending_repositories                                *)
(***************************************************************************)
Repo(name, description, html_url, language, stargazers_count) ==
    [name |-> name, description |-> description, html_url |-> html_url,
     language |-> language, stargazers_count |-> stargazers_count]

NoRepo == Repo(<<>>, <<>>, <<>>, JNull, 0)

\* _make_repo_from_api_item: the keyword arguments are evaluated in order,
\* the first failing _get_or_raise raises.
make_repo_from_api_item(item) ==
    LET name  == get_or_raise(item, "name", {"str"}, "GithubApiError")
        descr == get_or_raise(item, "description", {"str", "null"}, "GithubApiError")
        url   == get_or_raise(item, "html_url", {"str"}, "GithubApiError")
        lang  == get_or_raise(item, "language", {"str", "null"}, "GithubApiError")
        stars == get_or_raise(item, "stargazers_count", {"int"}, "GithubApiError")
    IN  IF name.exc # "none" THEN [exc |-> name.exc, repo |-> NoRepo]
        ELSE IF descr.exc # "none" THEN [exc |-> descr.exc, repo |-> NoRepo]
        ELSE IF url.exc # "none" THEN [exc |-> url.exc, repo |-> NoRepo]
        ELSE IF lang.exc # "none" THEN [exc |-> lang.exc, repo |-> NoRepo]
        ELSE IF stars.exc # "none" THEN [exc |-> stars.exc, repo |-> NoRepo]
        ELSE [exc  |-> "none",
              repo |-> Repo(name.value.str,
                            \* ... or '': None becomes the empty str
                            IF descr.value.kind = "null" THEN <<>> ELSE descr.value.str,
                            url.value.str,
                            IF lang.value.kind = "null" THEN JNull ELSE JStr(lang.value.str),
                            stars.value.int)]

\* [_make_repo_from_api_item(one_item) for one_item in items]
RECURSIVE MakeRepos(_)
MakeRepos(items) ==
    IF items = <<>> THEN [exc |-> "none", repos |-> <<>>]
    ELSE Bind(make_repo_from_api_item(Head(items)), LAMBDA first :
         IF first.exc # "none" THEN [exc |-> first.exc, repos |-> <<>>]
         ELSE Bind(MakeRepos(Tail(items)), LAMBDA rest :
              IF rest.exc # "none" THEN rest
              ELSE [exc |-> "none", repos |-> <<first.repo>> \o rest.repos]))

\* GithubApi.find_trending_repositories.  response is what the search API
\* answers to the one GET this method issues.
GithubApi_find_trending_repositories(created_after, limit, response) ==
    LET request == [Event("github_get", created_after) EXCEPT !.limit = limit]
        raise(cls) == [exc |-> cls, repos |-> <<>>, events |-> <<request>>]
    IN  IF response.net \in NetFailures THEN raise("GithubApiError")
        ELSE IF ~response.is_json THEN raise("GithubApiError")
        ELSE Bind(get_or_raise(response.data, "items", {"list"}, "GithubApiError"),
                  LAMBDA items :
             IF items.exc # "none" THEN raise(items.exc)
             ELSE Bind(MakeRepos(items.value.elems), LAMBDA made :
                  [exc |-> made.exc, repos |-> made.repos, events |-> <<request>>]))

\* find_trending_repositories under @ttl_cache(ttl=GITHUB_CACHE_TTL): cache
\* is the set of stored results, [age_in_days, repos], at most one per key
\* (the token is the same in every call); expired says whether the entry
\* for this key, if any, is older than the TTL.  A call that raises stores
\* nothing.
find_trending_repositories(age_in_days, cache, expired, response) ==
    LET hits == {e \in cache : e.age_in_days = age_in_days}
        kept == cache \ hits
    IN  IF hits # {} /\ ~expired
        THEN [exc |-> "none", repos |-> (CHOOSE e \in hits : TRUE).repos,
              cache |-> cache, events |-> <<>>]
        ELSE Bind(SubtractDays(UtcNow.ordinal, age_in_days), LAMBDA created_after :
             IF created_after.exc # "none"
             THEN [exc |-> created_after.exc, repos |-> <<>>,
                   cache |-> kept, events |-> <<>>]
             ELSE Bind(GithubApi_find_trending_repositories(
                           created_after.ordinal, 10, response), LAMBDA got :
                  IF got.exc # "none"
                  THEN [exc |-> got.exc, repos |-> <<>>,
                        cache |-> kept, events |-> got.events]
                  ELSE [exc |-> "none", repos |-> got.repos,
                        cache |-> kept \cup
                            {[age_in_days |-> age_in_days, repos |-> got.repos]},
                        events |-> got.events]))

(***************************************************************************)
(* format_html_message                                                     *)
(***************************************************************************)
FormatRepo(repo) ==
    LET language_part ==
            IF repo.language.kind # "null"
            THEN HtmlEscape(repo.language.str) \o <<" ">>
            ELSE <<>>
    IN  A_HREF_OPEN \o HtmlEscape(repo.html_url) \o A_HREF_CLOSE
            \o HtmlEscape(repo.name) \o A_END \o HtmlEscape(repo.description)
            \o <<" ", "[">> \o language_part \o IntToStr(repo.stargazers_count)
            \o <<STAR_SYMBOL, "]">>

format_html_message(repositories) ==
    StrJoin(<<"\n", "\n">>,
            [i \in 1..Len(repositories) |-> FormatRepo(repositories[i])])

(***************************************************************************)
(* Command handlers and CommandsExecutor.  A handler returns exc, text     *)
(* (the str returned, or str(exception) when it raises), the cache it      *)
(* leaves and the requests it issued.  world holds what the handler finds  *)
(* outside: the cache, whether the looked-up entry has expired and the     *)
(* search API's answer.                                                    *)
(***************************************************************************)
Returned(text, world) ==
    [exc |-> "none", text |-> text, cache |-> world.cache, events |-> <<>>]

Raised(cls, text, world) ==
    [exc |-> cls, text |-> text, cache |-> world.cache, events |-> <<>>]

\* A variant of _get_age_in_days_or_invalid_args that takes the default for
\* an argument that is no integer
age_in_days_or_default(args) ==
    IF args = <<>>
    THEN [exc |-> "none", text |-> <<>>, age_in_days |-> DEFAULT_AGE_IN_DAYS]
    ELSE IF Len(args) # 1
    THEN [exc |-> "InvalidCommand",
          text |-> ONLY_ONE_PREFIX \o IntToStr(Len(args)), age_in_days |-> 0]
    ELSE Bind(PyInt(args[1]), LAMBDA parsed :
         IF parsed.exc = "ValueError"
         THEN [exc |-> "none", text |-> <<>>, age_in_days |-> DEFAULT_AGE_IN_DAYS]
         ELSE [exc |-> "none", text |-> <<>>, age_in_days |-> parsed.value])

\* GithubShowCommand._get_age_in_days_or_invalid_args
get_age_in_days_or_invalid_args(args) ==
    IF args = <<>>
    THEN [exc |-> "none", text |-> <<>>, age_in_days |-> DEFAULT_AGE_IN_DAYS]
    ELSE IF Len(args) # 1
    THEN [exc |-> "InvalidCommand",
          text |-> ONLY_ONE_PREFIX \o IntToStr(Len(args)), age_in_days |-> 0]
    ELSE Bind(PyInt(args[1]), LAMBDA parsed :
         IF parsed.exc = "ValueError"
         THEN [exc |-> "InvalidCommand",
               text |-> args[1] \o SHOULD_BE_INT_SUFFIX, age_in_days |-> 0]
         ELSE [exc |-> "none", text |-> <<>>, age_in_days |-> parsed.value])

\* GithubShowCommand.__call__
GithubShowCommand(args, world) ==
    Bind(get_age_in_days_or_invalid_args(args), LAMBDA age :
    IF age.exc # "none" THEN Raised(age.exc, age.text, world)
    ELSE Bind(find_trending_repositories(age.age_in_days, world.cache,
                                         world.expired, world.response),
              LAMBDA found :
         IF found.exc # "none"
         THEN [exc |-> found.exc, text |-> <<>>, cache |-> found.cache,
               events |-> found.events]
         ELSE [exc |-> "none", text |-> format_html_message(found.repos),
               cache |-> found.cache, events |-> found.events]))

\* TimestampCommand.__call__, with _validate_args
TimestampCommand(args, world) ==
    IF Len(args) > 1
    THEN Raised("InvalidCommand", TOO_MANY_PREFIX \o USAGE_STRING, world)
    ELSE IF args = <<>>
    THEN Returned(IntToStr(UnixTimestamp(UtcNow.ordinal, UtcNow.second)), world)
    ELSE Bind(strptime(args[1]), LAMBDA naive_d_time :
         IF naive_d_time.exc = "ValueError"
         THEN Raised("InvalidCommand", USAGE_STRING, world)
         ELSE Returned(IntToStr(UnixTimestamp(naive_d_time.ordinal,
                                              naive_d_time.second)), world))

\* The keys of the dict built by _get_commands_executor
CommandNames ==
    {HELP_COMMAND, START_COMMAND, ECHO_COMMAND, SHOW_COMMAND, TIMESTAMP_COMMAND}

\* commands_by_name[name](args), for a name that is a key
CallCommand(name, args, world) ==
    CASE name = HELP_COMMAND      -> Returned(HELP_TEXT, world)
      [] name = START_COMMAND     -> Returned(HELP_TEXT, world)
      [] name = ECHO_COMMAND      -> Returned(StrJoin(<<"\n">>, args), world)
      [] name = SHOW_COMMAND      -> GithubShowCommand(args, world)
      [] name = TIMESTAMP_COMMAND -> TimestampCommand(args, world)

\* A variant of CommandsExecutor.execute that lets the KeyError of
\* commands_by_name[name] out instead of raising InvalidCommand
execute_lets_KeyError_out(parsed_message, world) ==
    IF parsed_message.name \notin CommandNames
    THEN Raised("KeyError", parsed_message.name, world)
    ELSE CallCommand(parsed_message.name, parsed_message.args, world)

\* A variant of CommandsExecutor.execute that hands the handler the name
\* with the args
execute_hands_name_over(parsed_message, world) ==
    IF parsed_message.name \notin CommandNames
    THEN Raised("InvalidCommand",
                UNKNOWN_PREFIX \o parsed_message.name \o UNKNOWN_SUFFIX, world)
    ELSE CallCommand(parsed_message.name,
                     <<parsed_message.name>> \o parsed_message.args, world)

\* CommandsExecutor.execute
CommandsExecutor_execute(parsed_message, world) ==
    IF parsed_message.name \notin CommandNames
    THEN Raised("InvalidCommand",
                UNKNOWN_PREFIX \o parsed_message.name \o UNKNOWN_SUFFIX, world)
    ELSE CallCommand(parsed_message.name, parsed_message.args, world)

(***************************************************************************)
(* TelegramApi                                                             *)
(***************************************************************************)
Message(chat_id, message_id, text) ==
    [is_none |-> FALSE, chat_id |-> chat_id, message_id |-> message_id,
     text |-> text]

\* None where a Message is expected
NoneMessage ==
    [is_none |-> TRUE, chat_id |-> 0, message_id |-> 0, text |-> <<>>]

Update(update_id, message) == [update_id |-> update_id, message |-> message]

\* _is_message
is_message(update_item) ==
    get_or_raise(update_item, "message", {"dict"}, "ValueError").exc = "none"

\* _make_message_from_api_item: the first failing _get_or_raise raises
\* ValueError; the keyword arguments of Message(...) are evaluated after
\* chat and text.
make_message_from_api_item(item) ==
    IF ~is_message(item) THEN [exc |-> "none", message |-> NoneMessage]
    ELSE
    LET message_item == get_or_raise(item, "message", {"dict"}, "ValueError").value
        chat_item    == get_or_raise(message_item, "chat", {"dict"}, "ValueError")
        text         == IF message_item.text.kind = "absent"
                        THEN [exc |-> "none", value |-> JStr(<<>>)]
                        ELSE get_or_raise(message_item, "text", {"str"}, "ValueError")
        chat_id      == get_or_raise(chat_item.value, "id", {"int"}, "ValueError")
        message_id   == get_or_raise(message_item, "message_id", {"int"}, "ValueError")
        raise(cls)   == [exc |-> cls, message |-> NoneMessage]
    IN  IF chat_item.exc # "none" THEN raise(chat_item.exc)
        ELSE IF text.exc # "none" THEN raise(text.exc)
        ELSE IF chat_id.exc # "none" THEN raise(chat_id.exc)
        ELSE IF message_id.exc # "none" THEN raise(message_id.exc)
        ELSE [exc     |-> "none",
              message |-> Message(chat_id.value.int, message_id.value.int,
                                  text.value.str)]

\* A variant of _make_update_from_api_item without the except clause
make_update_lets_ValueError_out(item) ==
    Bind(get_or_raise(item, "update_id", {"int"}, "TelegramApiError"),
         LAMBDA update_id :
    IF update_id.exc # "none"
    THEN [exc |-> update_id.exc, update |-> Update(0, NoneMessage)]
    ELSE Bind(make_message_from_api_item(item), LAMBDA made :
         [exc |-> made.exc, update |-> Update(update_id.value.int, made.message)]))

\* _make_update_from_api_item
make_update_from_api_item(item) ==
    Bind(get_or_raise(item, "update_id", {"int"}, "TelegramApiError"),
         LAMBDA update_id :
    IF update_id.exc # "none"
    THEN [exc |-> update_id.exc, update |-> Update(0, NoneMessage)]
    ELSE Bind(make_message_from_api_item(item), LAMBDA made :
         IF made.exc = "ValueError"
         THEN [exc |-> "none", update |-> Update(update_id.value.int, NoneMessage)]
         ELSE [exc |-> made.exc, update |-> Update(update_id.value.int, made.message)]))

\* [_make_update_from_api_item(item) for item in result]
RECURSIVE MakeUpdates(_)
MakeUpdates(result) ==
    IF result = <<>> THEN [exc |-> "none", updates |-> <<>>]
    ELSE Bind(make_update_from_api_item(Head(result)), LAMBDA first :
         IF first.exc # "none" THEN [exc |-> first.exc, updates |-> <<>>]
         ELSE Bind(MakeUpdates(Tail(result)), LAMBDA rest :
              IF rest.exc # "none" THEN rest
              ELSE [exc |-> "none", updates |-> <<first.update>> \o rest.updates]))

\* TelegramApi.get_updates.  response is what the messaging API answers to
\* the one POST this method issues.
TelegramApi_get_updates(offset, limit, timeout, response) ==
    LET request == [Event("post_getUpdates", offset) EXCEPT
                        !.limit = limit, !.timeout = timeout]
        raise(cls) == [exc |-> cls, updates |-> <<>>, events |-> <<request>>]
    IN  IF response.net \in NetFailures THEN raise("TelegramApiError")
        ELSE IF ~response.is_json THEN raise("TelegramApiError")
        ELSE Bind(get_or_raise(response.data, "result", {"list"}, "TelegramApiError"),
                  LAMBDA result :
             IF result.exc # "none" THEN raise(result.exc)
             ELSE Bind(MakeUpdates(result.value.elems), LAMBDA made :
                  [exc |-> made.exc, updates |-> made.updates,
                   events |-> <<request>>]))

\* A variant of TelegramApi.send_message that issues the POST a second time
\* when the first one fails
send_message_again(chat_id, text, parse_mode, disable_web_page_preview, disable_notification, net) ==
    IF text = <<>> THEN [exc |-> "none", events |-> <<>>]
    ELSE LET request == [Event("post_sendMessage", chat_id) EXCEPT
                            !.text = text,
                            !.parse_mode = parse_mode,
                            !.disable_web_page_preview = disable_web_page_preview,
                            !.disable_notification = disable_notification]
         IN  IF net \in NetFailures
             THEN [exc |-> "TelegramApiError", events |-> <<request, request>>]
             ELSE [exc |-> "none", events |-> <<request>>]

\* A variant of TelegramApi.send_message without the test of text
send_message_whatever_text(chat_id, text, parse_mode, disable_web_page_preview, disable_notification, net) ==
    LET request == [Event("post_sendMessage", chat_id) EXCEPT
                       !.text = text,
                       !.parse_mode = parse_mode,
                       !.disable_web_page_preview = disable_web_page_preview,
                       !.disable_notification = disable_notification]
    IN  IF net \in NetFailures
        THEN [exc |-> "TelegramApiError", events |-> <<request>>]
        ELSE [exc |-> "none", events |-> <<request>>]

\* TelegramApi.send_message.  net is how the one POST of this method ends,
\* if it is issued: "ok" or one of NetFailures.
TelegramApi_send_message(chat_id, text, parse_mode, disable_web_page_preview, disable_notification, net) ==
    IF text = <<>> THEN [exc |-> "none", events |-> <<>>]
    ELSE LET request == [Event("post_sendMessage", chat_id) EXCEPT
                            !.text = text,
                            \* the key parse_mode is sent only when it is
                            \* not empty
                            !.parse_mode = parse_mode,
                            !.disable_web_page_preview = disable_web_page_preview,
                            !.disable_notification = disable_notification]
         IN  IF net \in NetFailures
             THEN [exc |-> "TelegramApiError", events |-> <<request>>]
             ELSE [exc |-> "none", events |-> <<request>>]

(***************************************************************************)
(* Configuration                                                           *)
(***************************************************************************)
\* ' is missing from environment' (line 350)
IS_MISSING_SUFFIX ==
    <<" ", "i", "s", " ", "m", "i", "s", "s", "i", "n", "g", " ", "f", "r", "o", "m", " ",
      "e", "n", "v", "i", "r", "o", "n", "m", "e", "n", "t">>

\* The two keys, as str
GITHUB_TOKEN_KEY ==
    <<"G", "I", "T", "H", "U", "B", "_", "T", "O", "K", "E", "N">>

TELEGRAM_TOKEN_KEY ==
    <<"T", "E", "L", "E", "G", "R", "A", "M", "_", "T", "O", "K", "E", "N">>

KeyStr(key) ==
    IF key = "GITHUB_TOKEN" THEN GITHUB_TOKEN_KEY ELSE TELEGRAM_TOKEN_KEY

\* _get_or_invalid_config: environment is a function from the keys it has
get_or_invalid_config(environment, key) ==
    IF key \in DOMAIN environment
    THEN [exc |-> "none", value |-> environment[key], text |-> <<>>]
    ELSE [exc |-> "InvalidConfig", value |-> "",
          text |-> KeyStr(key) \o IS_MISSING_SUFFIX]

Config(github_token, telegram_token) ==
    [github_token |-> github_token, telegram_token |-> telegram_token]

NoConfig == Config("", "")

\* A variant of get_config that takes '' for a TELEGRAM_TOKEN that is
\* missing
get_config_of_github_token(environment) ==
    LET github_token == get_or_invalid_config(environment, "GITHUB_TOKEN")
    IN  IF github_token.exc # "none"
        THEN [exc |-> github_token.exc, text |-> github_token.text, config |-> NoConfig]
        ELSE [exc |-> "none", text |-> <<>>,
              config |-> Config(github_token.value,
                                IF "TELEGRAM_TOKEN" \in DOMAIN environment
                                THEN environment["TELEGRAM_TOKEN"] ELSE "")]

get_config(environment) ==
    LET github_token   == get_or_invalid_config(environment, "GITHUB_TOKEN")
        telegram_token == get_or_invalid_config(environment, "TELEGRAM_TOKEN")
    IN  IF github_token.exc # "none"
        THEN [exc |-> github_token.exc, text |-> github_token.text, config |-> NoConfig]
        ELSE IF telegram_token.exc # "none"
        THEN [exc |-> telegram_token.exc, text |-> telegram_token.text,
              config |-> NoConfig]
        ELSE [exc |-> "none", text |-> <<>>,
              config |-> Config(github_token.value, telegram_token.value)]

(***************************************************************************)
(* Helpers of main                                                         *)
(***************************************************************************)
\* _get_parsed_message
get_parsed_message(update) ==
    IF update.message.is_none
    THEN ParsedMessage(HELP_COMMAND, <<>>)
    ELSE LET parsed == parse_message_text(update.message.text)
         IN  IF IsSubclass(parsed.exc, "ParseError")
             THEN ParsedMessage(ECHO_COMMAND, <<OOPS_TEXT>>)
             ELSE ParsedMessage(parsed.name, parsed.args)

RECURSIVE MaxUpdateIdOf(_)
MaxUpdateIdOf(bot_updates) ==
    IF Len(bot_updates) = 1 THEN bot_updates[1].update_id
    ELSE LET rest == MaxUpdateIdOf(Tail(bot_updates))
         IN  IF bot_updates[1].update_id >= rest
             THEN bot_updates[1].update_id ELSE rest

\* A variant of _get_next_offset that takes the last update for the largest
get_next_offset_of_last(stored_offset, bot_updates) ==
    IF bot_updates = <<>> THEN stored_offset
    ELSE bot_updates[Len(bot_updates)].update_id + 1

\* _get_next_offset; stored_offset is what offset_state.offset reads
get_next_offset(stored_offset, bot_updates) ==
    IF bot_updates = <<>> THEN stored_offset
    ELSE MaxUpdateIdOf(bot_updates) + 1

\* 'HTML'
HTML == <<"H", "T", "M", "L">>

\* Lines 264-282 of main, for an update that has a message: the command is
\* parsed and executed, the exceptions main names are turned into a reply
\* text, and the reply is sent.  An exception main does not name leaves the
\* loop body (and main) at that point.
HandleUpdate(update, world, net) ==
    Bind(CommandsExecutor_execute(get_parsed_message(update), world),
         LAMBDA executed :
    IF /\ executed.exc # "none"
       /\ ~IsSubclass(executed.exc, "InvalidCommand")
       /\ ~IsSubclass(executed.exc, "Error")
    THEN [exc |-> executed.exc, cache |-> executed.cache,
          events |-> executed.events]
    ELSE
    LET message_text == IF executed.exc = "none" THEN executed.text
                        ELSE IF IsSubclass(executed.exc, "InvalidCommand")
                        THEN executed.text
                        ELSE OOPS_TEXT
        logged == IF executed.exc = "none" \/ IsSubclass(executed.exc, "InvalidCommand")
                  THEN <<>>
                  ELSE <<LogRecord("error_executing", executed.exc)>>
        call == [Event("send_message", update.message.chat_id) EXCEPT
                    !.text = message_text,
                    !.parse_mode = HTML,
                    !.disable_web_page_preview = TRUE,
                    !.disable_notification = TRUE]
    IN  Bind(TelegramApi_send_message(update.message.chat_id, message_text,
                                      HTML, TRUE, TRUE, net), LAMBDA sent :
        [exc    |-> "none",
         cache  |-> executed.cache,
         events |-> executed.events \o logged \o <<call>> \o sent.events
                    \o (IF IsSubclass(sent.exc, "TelegramApiError")
                        THEN <<LogRecord("error_send_message", sent.exc),
                               Event("sleep", 10)>>
                        ELSE <<>>)]))

(***************************************************************************)
(* The inputs of a run: the environment, the offset file, what the two     *)
(* remote APIs answer.                                                     *)
(***************************************************************************)
\* Updates per batch the messaging API is taken to return at most (the
\* code asks for at most TELEGRAM_UPDATES_LIMIT and does not check).
MaxBatch == 2

\* Content of the offset file when the process starts
InitialOffsets == {0}

\* os.environ: each of the two keys is there, with a value of its own, or
\* is not
Environments ==
    {[key \in keys |-> IF key = "GITHUB_TOKEN" THEN "github-token" ELSE "telegram-token"] :
        keys \in SUBSET {"GITHUB_TOKEN", "TELEGRAM_TOKEN"}}

JChat(id) == [kind |-> "dict", id |-> id]

NoChat == [kind |-> "absent", id |-> Absent]

JMessage(chat, message_id, text) ==
    [kind |-> "dict", chat |-> chat, message_id |-> message_id, text |-> text]

\* a message key that is absent, or whose value is no dict
NonDictMessage(kind) ==
    [kind |-> kind, chat |-> NoChat, message_id |-> Absent, text |-> Absent]

JItem(update_id, message) ==
    [kind |-> "dict", update_id |-> update_id, message |-> message]

\* Texts users send; the i-th one comes from chat i, as message 10 + i
SampleTexts ==
    << HELP_COMMAND,
       SHOW_COMMAND,
       SHOW_COMMAND \o <<" ", "1", "0", "0", "0", "0", "0", "0", "0", "0", "0">>,
       SHOW_COMMAND \o <<" ", "x">>,
       <<"/", "f", "o", "o">>,
       ECHO_COMMAND,
       TIMESTAMP_COMMAND \o <<" ", "1", "9", "7", "0", "-", "0", "1", "-", "0", "2",
                              "T", "0", "0", ":", "0", "0", ":", "0", "1">>,
       TIMESTAMP_COMMAND \o <<" ", "x">>,
       <<>> >>

\* The i-th text, as an item of a result list: it arrives under update_id
\* 1 or 2, by the parity of i
TextItem(i) ==
    JItem(JInt(1 + (i % 2)),
          JMessage(JChat(JInt(i)), JInt(10 + i), JStr(SampleTexts[i])))

\* The last message again, without its text key
NoTextItem ==
    JItem(JInt(1 + (Len(SampleTexts) % 2)),
          JMessage(JChat(JInt(Len(SampleTexts))), JInt(10 + Len(SampleTexts)), Absent))

WellFormedItems == {TextItem(i) : i \in 1..Len(SampleTexts)} \cup {NoTextItem}

\* Items with an update_id and without a well-formed message
MalformedItems ==
    {JItem(JInt(2), m) : m \in
        { NonDictMessage("absent"),                                  \* no message key
          NonDictMessage("str"),                                     \* message is a str
          JMessage(NoChat, JInt(31), JStr(HELP_COMMAND)),            \* no chat
          JMessage(JChat(Absent), JInt(32), JStr(HELP_COMMAND)),     \* chat without id
          JMessage(JChat(JStr(<<"7">>)), JInt(33), JStr(HELP_COMMAND)), \* id is a str
          JMessage(JChat(JInt(21)), Absent, JStr(HELP_COMMAND)),     \* no message_id
          JMessage(JChat(JInt(22)), JInt(34), JInt(5)) }}            \* text is an int

\* An item whose update_id is a str, and an item that is no dict
BrokenItems ==
    { JItem(JStr(<<"1">>), NonDictMessage("absent")),
      [JItem(JInt(1), NonDictMessage("absent")) EXCEPT !.kind = "int"] }

\* The items the messages of Spec are drawn from
SampleItems == WellFormedItems \cup MalformedItems \cup BrokenItems

\* The items the messages of SpecRaw are drawn from: fewer texts, and
\* every malformed shape
RawSampleItems ==
    {TextItem(1), TextItem(3), TextItem(Len(SampleTexts)), NoTextItem}
    \cup MalformedItems \cup BrokenItems

RECURSIVE SeqsUpTo(_, _)
SeqsUpTo(S, n) ==
    IF n = 0 THEN {<<>>}
    ELSE LET shorter == SeqsUpTo(S, n - 1)
         IN  shorter \cup {Append(q, x) : q \in shorter, x \in S}

JList(elems) == [kind |-> "list", elems |-> elems]

\* The body of a getUpdates answer, with its result key
TelegramBody(kind, result) == [kind |-> kind, result |-> result]

\* The body of a search answer, with its items key
GithubBody(kind, items) == [kind |-> kind, items |-> items]

HttpResponse(net, is_json, data) ==
    [net |-> net, is_json |-> is_json, data |-> data]

\* What the messaging API can answer to getUpdates, its result lists
\* being drawn from items
TelegramResponses(items) ==
    {HttpResponse(net, FALSE, TelegramBody("null", JList(<<>>))) : net \in NetFailures}
    \cup { HttpResponse("ok", FALSE, TelegramBody("null", JList(<<>>))),   \* no JSON
           HttpResponse("ok", TRUE, TelegramBody("list", JList(<<>>))),    \* a JSON list
           HttpResponse("ok", TRUE, TelegramBody("dict", [kind |-> "absent", elems |-> <<>>])),
           HttpResponse("ok", TRUE, TelegramBody("dict", [kind |-> "str", elems |-> <<>>])) }
    \cup {HttpResponse("ok", TRUE, TelegramBody("dict", JList(batch))) :
            batch \in SeqsUpTo(items, MaxBatch)}

\* No answer: the value of the variable response where it is not recorded
NoResponse == HttpResponse("none", FALSE, TelegramBody("null", JList(<<>>)))

JRepo(name, description, html_url, language, stargazers_count) ==
    [kind |-> "dict", name |-> name, description |-> description,
     html_url |-> html_url, language |-> language,
     stargazers_count |-> stargazers_count]

SampleRepo ==
    JRepo(JStr(<<"<", "r", ">">>), JStr(<<"d", "\"", "'">>),
          JStr(<<"h", "t", "t", "p", ":", "/", "/", "x", "?", "a", "&", "b">>),
          JStr(<<"C">>), JInt(12))

\* What the search API can answer
GithubResponses ==
    { HttpResponse("Timeout", FALSE, GithubBody("null", JList(<<>>))),
      HttpResponse("HTTPError", FALSE, GithubBody("null", JList(<<>>))),
      HttpResponse("ok", FALSE, GithubBody("null", JList(<<>>))),          \* no JSON
      HttpResponse("ok", TRUE, GithubBody("list", JList(<<>>))),           \* a JSON list
      HttpResponse("ok", TRUE, GithubBody("dict", [kind |-> "absent", elems |-> <<>>])),
      HttpResponse("ok", TRUE, GithubBody("dict",
          JList(<<SampleRepo, [SampleRepo EXCEPT !.language = JNull,
                                                 !.description = JNull]>>))),
      HttpResponse("ok", TRUE, GithubBody("dict",
          JList(<<[SampleRepo EXCEPT !.stargazers_count = JStr(<<"1">>)]>>))) }

\* How the POST of send_message can end
SendOutcomes == {"ok"} \cup NetFailures

(***************************************************************************)
(* The process: main.                                                      *)
(***************************************************************************)
VARIABLES
    pc,           \* where main is: "start", "poll", "for", "loop", "exited", "crashed";
                  \* in SpecCalls "calls" before the call and "returned" after it
    environ,      \* os.environ
    config,       \* the Config main holds
    offset,       \* the integer in the offset file (offset_state.offset)
    response,     \* the answer to the last getUpdates request (SpecRaw only)
    updates,      \* the list get_updates returned to the current iteration
    idx,          \* how many updates of it the for loop has been through
    log,          \* the events of the current iteration of the while loop
    cache,        \* the cache of find_trending_repositories
    exit_status,  \* the exit status of the process, -1 while it runs
    applied       \* the last call of SpecCalls: the function, its arguments, its result

vars ==
    <<pc, environ, config, offset, response, updates, idx, log, cache, exit_status,
      applied>>

\* No call: the value of the variable applied outside SpecCalls
NoCall == [fn |-> "none"]

Init ==
    /\ pc = "start"
    /\ environ \in Environments
    /\ config = NoConfig
    /\ offset \in InitialOffsets
    /\ response = NoResponse
    /\ updates = <<>>
    /\ idx = 0
    /\ log = <<>>
    /\ cache = {}
    /\ exit_status = -1
    /\ applied = NoCall

\* Lines 242-247: _get_config_or_exit returns the config, or logs and
\* calls sys.exit(1).
Start ==
    /\ pc = "start"
    /\ \E got \in {get_config(environ)} :
           IF IsSubclass(got.exc, "InvalidConfig")
           THEN /\ pc' = "exited"
                /\ exit_status' = 1
                /\ UNCHANGED config
           ELSE /\ pc' = "poll"
                /\ config' = got.config
                /\ UNCHANGED exit_status
    /\ UNCHANGED <<applied, environ, offset, response, updates, idx, log, cache>>

\* Lines 249-254: get_updates is called with the offset read from the file
Poll(answer) ==
    TelegramApi_get_updates(offset, TELEGRAM_UPDATES_LIMIT,
                            DEFAULT_TELEGRAM_API_LONG_POLLING_TIMEOUT, answer)

\* The answer is kept in response when record says so
Received(answer, record) ==
    response' = IF record THEN answer ELSE NoResponse

\* get_updates returns a list: the for loop starts
GetUpdatesReturns(answers, record) ==
    /\ pc = "poll"
    /\ \E answer \in answers :
          \E got \in {Poll(answer)} :
              /\ got.exc = "none"
              /\ Received(answer, record)
              /\ updates' = got.updates
              /\ idx' = 0
              /\ log' = got.events
              /\ pc' = "for"
    /\ UNCHANGED <<applied, environ, config, offset, cache, exit_status>>

\* A variant of lines 255-258 without the continue: main goes on to the
\* for loop, over no updates, and to line 283
GetUpdatesErrorFallsThrough(answers, record) ==
    /\ pc = "poll"
    /\ \E answer \in answers :
          \E got \in {Poll(answer)} :
              /\ IsSubclass(got.exc, "TelegramApiError")
              /\ Received(answer, record)
              /\ log' = got.events
                        \o <<LogRecord("error_get_updates", got.exc), Event("sleep", 10)>>
              /\ updates' = <<>>
              /\ idx' = 0
              /\ pc' = "for"
    /\ UNCHANGED <<applied, environ, config, offset, cache, exit_status>>

\* Lines 255-258: TelegramApiError is logged, main sleeps and continues
GetUpdatesRaisesTelegramApiError(answers, record) ==
    /\ pc = "poll"
    /\ \E answer \in answers :
          \E got \in {Poll(answer)} :
              /\ IsSubclass(got.exc, "TelegramApiError")
              /\ Received(answer, record)
              /\ log' = got.events
                        \o <<LogRecord("error_get_updates", got.exc), Event("sleep", 10)>>
              /\ pc' = "loop"
    /\ UNCHANGED <<applied, environ, config, offset, updates, idx, cache, exit_status>>

\* Any other exception of get_updates is caught nowhere: main ends with a
\* traceback, and the interpreter exits with status 1.
GetUpdatesRaisesOther(answers, record) ==
    /\ pc = "poll"
    /\ \E answer \in answers :
          \E got \in {Poll(answer)} :
              /\ got.exc # "none"
              /\ ~IsSubclass(got.exc, "TelegramApiError")
              /\ Received(answer, record)
              /\ log' = got.events \o <<LogRecord("traceback", got.exc)>>
              /\ pc' = "crashed"
              /\ exit_status' = 1
    /\ UNCHANGED <<applied, environ, config, offset, updates, idx, cache>>

\* Lines 261-263: an update without a message is logged and skipped
SkipUpdate ==
    /\ pc = "for"
    /\ idx < Len(updates)
    /\ updates[idx + 1].message.is_none
    /\ log' = Append(log, Event("info_no_message", updates[idx + 1].update_id))
    /\ idx' = idx + 1
    /\ UNCHANGED <<applied, pc, environ, config, offset, response, updates, cache, exit_status>>

\* The search API's answer and the state of the cache entry matter only
\* to /show: they are drawn for /show alone.
Worlds(update) ==
    IF get_parsed_message(update).name = SHOW_COMMAND
    THEN {[cache |-> cache, expired |-> e, response |-> r] :
            e \in BOOLEAN, r \in GithubResponses}
    ELSE {[cache |-> cache, expired |-> FALSE,
           response |-> CHOOSE r \in GithubResponses : TRUE]}

\* Lines 264-282: one pass through the body of the for loop
ReplyToUpdate ==
    /\ pc = "for"
    /\ idx < Len(updates)
    /\ ~updates[idx + 1].message.is_none
    /\ \E world \in Worlds(updates[idx + 1]), net \in SendOutcomes :
          \E handled \in {HandleUpdate(updates[idx + 1], world, net)} :
              /\ handled.exc = "none"
              /\ log' = log \o handled.events
              /\ cache' = handled.cache
              /\ idx' = idx + 1
    /\ UNCHANGED <<applied, pc, environ, config, offset, response, updates, exit_status>>

\* An exception raised in the body that main does not catch ends main
\* with a traceback, and the interpreter exits with status 1.
ReplyToUpdateRaises ==
    /\ pc = "for"
    /\ idx < Len(updates)
    /\ ~updates[idx + 1].message.is_none
    /\ \E world \in Worlds(updates[idx + 1]), net \in SendOutcomes :
          \E handled \in {HandleUpdate(updates[idx + 1], world, net)} :
              /\ handled.exc # "none"
              /\ log' = log \o handled.events
                        \o <<LogRecord("traceback", handled.exc)>>
              /\ cache' = handled.cache
              /\ pc' = "crashed"
              /\ exit_status' = 1
    /\ UNCHANGED <<applied, environ, config, offset, response, updates, idx>>

\* A variant of line 283 inside the for loop: the offset is written after
\* any update of the batch, and the rest of the batch is left
WriteOffsetInsideLoop ==
    /\ pc = "for"
    /\ idx > 0
    /\ offset' = get_next_offset(offset, updates)
    /\ log' = Append(log, Event("write_offset", get_next_offset(offset, updates)))
    /\ pc' = "loop"
    /\ UNCHANGED <<applied, environ, config, response, updates, idx, cache, exit_status>>

\* Line 283, after the for loop: the next offset is computed and written
WriteOffset ==
    /\ pc = "for"
    /\ idx = Len(updates)
    /\ offset' = get_next_offset(offset, updates)
    /\ log' = Append(log, Event("write_offset", get_next_offset(offset, updates)))
    /\ pc' = "loop"
    /\ UNCHANGED <<applied, environ, config, response, updates, idx, cache, exit_status>>

\* while True: the next iteration starts; nothing of the last one is kept
\* but the offset file and the cache
NextIteration ==
    /\ pc = "loop"
    /\ pc' = "poll"
    /\ response' = NoResponse
    /\ updates' = <<>>
    /\ idx' = 0
    /\ log' = <<>>
    /\ UNCHANGED <<applied, environ, config, offset, cache, exit_status>>

Next ==
    \/ Start
    \/ GetUpdatesReturns(TelegramResponses(SampleItems), FALSE)
    \/ GetUpdatesRaisesTelegramApiError(TelegramResponses(SampleItems), FALSE)
    \/ GetUpdatesRaisesOther(TelegramResponses(SampleItems), FALSE)
    \/ SkipUpdate
    \/ ReplyToUpdate
    \/ ReplyToUpdateRaises
    \/ WriteOffset
    \/ NextIteration

Spec == Init /\ [][Next]_vars

\* main with the answer to each getUpdates request recorded
NextRaw ==
    \/ Start
    \/ GetUpdatesReturns(TelegramResponses(RawSampleItems), TRUE)
    \/ GetUpdatesRaisesTelegramApiError(TelegramResponses(RawSampleItems), TRUE)
    \/ GetUpdatesRaisesOther(TelegramResponses(RawSampleItems), TRUE)
    \/ SkipUpdate
    \/ ReplyToUpdate
    \/ ReplyToUpdateRaises
    \/ WriteOffset
    \/ NextIteration

SpecRaw == Init /\ [][NextRaw]_vars

(***************************************************************************)
(* The functions of the module called on their own, as the tests call      *)
(* them: a behaviour of SpecCalls is one call, with arguments of its own.   *)
(***************************************************************************)
\* Arguments per call of a handler, at most
MaxArgs == 2

\* Names a parsed message can carry: the five commands, two names the
\* mapping does not have
CallNames == CommandNames \cup {<<"/", "f", "o", "o">>, <<>>}

\* Words the args are drawn from
CallWords ==
    { <<"3">>, <<"x">>, <<>>, <<"-", "1">>, <<"+", "7">>, <<"1", "_", "0">>,
      <<"1", "0", "0", "0", "0", "0", "0", "0", "0", "0">>,
      <<"1", "9", "7", "0", "-", "0", "1", "-", "0", "2",
        "T", "0", "0", ":", "0", "0", ":", "0", "1">> }

CallArgs == SeqsUpTo(CallWords, MaxArgs)

\* A result stored for age 7
CachedRepos == <<Repo(<<"c">>, <<>>, <<"u">>, JNull, 1)>>

\* What a handler can find outside: the cache empty or holding a result
\* for age 7, fresh or expired, and any answer of the search API
CallWorlds ==
    {[cache |-> c, expired |-> e, response |-> r] :
        c \in {{}, {[age_in_days |-> DEFAULT_AGE_IN_DAYS, repos |-> CachedRepos]}},
        e \in BOOLEAN, r \in GithubResponses}

InitCalls ==
    /\ pc = "calls"
    /\ environ \in {e \in Environments : DOMAIN e = {"GITHUB_TOKEN", "TELEGRAM_TOKEN"}}
    /\ config = NoConfig
    /\ offset \in InitialOffsets
    /\ response = NoResponse
    /\ updates = <<>>
    /\ idx = 0
    /\ log = <<>>
    /\ cache = {}
    /\ exit_status = -1
    /\ applied = NoCall

\* commands_executor.execute(ParsedMessage(name, args))
CallExecute ==
    /\ pc = "calls"
    /\ \E name \in CallNames, args \in CallArgs, world \in CallWorlds :
          applied' = [fn |-> "execute", name |-> name, args |-> args, world |-> world,
                      result |-> CommandsExecutor_execute(ParsedMessage(name, args), world)]
    /\ pc' = "returned"
    /\ UNCHANGED <<environ, config, offset, response, updates, idx, log, cache,
                   exit_status>>

\* GithubShowCommand(token)(args)
CallShow ==
    /\ pc = "calls"
    /\ \E args \in CallArgs, world \in CallWorlds :
          applied' = [fn |-> "show", name |-> SHOW_COMMAND, args |-> args, world |-> world,
                      result |-> GithubShowCommand(args, world)]
    /\ pc' = "returned"
    /\ UNCHANGED <<environ, config, offset, response, updates, idx, log, cache,
                   exit_status>>

\* Characters a text is made of, and how long a text is at most
TextAlphabet == {" ", "/", "a", "\n"}

MaxTextLen == 4

\* parse_message_text(text)
CallParse ==
    /\ pc = "calls"
    /\ \E text \in SeqsUpTo(TextAlphabet, MaxTextLen) :
          applied' = [fn |-> "parse_message_text", text |-> text,
                      result |-> parse_message_text(text)]
    /\ pc' = "returned"
    /\ UNCHANGED <<environ, config, offset, response, updates, idx, log, cache,
                   exit_status>>

NextCalls ==
    \/ CallExecute
    \/ CallShow
    \/ CallParse

SpecCalls == InitCalls /\ [][NextCalls]_vars

(***************************************************************************)
(* Properties.                                                             *)
(***************************************************************************)
\* The calls of send_message in the current iteration, in order
Calls == SelectSeq(log, LAMBDA e : e.ev = "send_message")

\* The offset file has been written in the current iteration
Written == log # <<>> /\ log[Len(log)].ev = "write_offset"

\* How many of the first n updates of the batch carry a message
WithMessageUpTo(n) == Cardinality({j \in 1..n : ~updates[j].message.is_none})

MaxOf(S) == CHOOSE m \in S : \A k \in S : m >= k

\* The request of the current iteration's poll carries the offset the file
\* holds, as long as the file has not been written since
PollCarriesStoredOffset ==
    (log # <<>> /\ ~Written) =>
        /\ log[1].ev = "post_getUpdates"
        /\ log[1].num = offset

\* C1: once the for loop is through a batch, the offset file holds the
\* largest update_id of the batch (entries without a message included)
\* plus one, or, for an empty batch, the offset the batch was polled with;
\* and every poll request carries the offset the file holds.
C1_OffsetAfterBatch ==
    /\ Written =>
          /\ pc = "loop"
          /\ log[1].ev = "post_getUpdates"
          /\ log[Len(log)].num = offset
          /\ offset = IF updates = <<>> THEN log[1].num
                      ELSE MaxOf({updates[i].update_id : i \in 1..Len(updates)}) + 1
    /\ PollCarriesStoredOffset

\* C1, witness: a batch of two whose first entry has no message and the
\* larger update_id has been gone through, and the file holds that
\* update_id plus one.
C1_Witness ==
    /\ pc = "loop"
    /\ Written
    /\ Len(updates) = 2
    /\ updates[1].message.is_none
    /\ updates[1].update_id = 2
    /\ updates[2].update_id = 1
    /\ offset = 3

\* C2: the offset written at the end of an iteration is never smaller than
\* the offset the iteration polled with.
C2_OffsetNeverDecreases ==
    Written => offset >= log[1].num

\* The text main can send in reply to update: what its command returns,
\* the message of the command error it raises, or the apology
ReplyTexts(update) ==
    {executed.text : executed \in
        {e \in {CommandsExecutor_execute(get_parsed_message(update), world) :
                    world \in Worlds(update)} :
            e.exc = "none" \/ IsSubclass(e.exc, "InvalidCommand")}}
    \cup {OOPS_TEXT}

\* C3: of a batch whose entries all carry a message, every message gets
\* exactly one call of send_message, in the order of the batch: the i-th
\* call goes to the chat of the i-th message, with a text its command
\* produces, parse mode HTML and both flags set; an empty batch gets none.
C3_OneReplyPerMessage ==
    (\A i \in 1..Len(updates) : ~updates[i].message.is_none) =>
        /\ pc = "for" => Len(Calls) = idx
        /\ pc \in {"loop", "crashed"} => Len(Calls) = Len(updates)
        /\ \A k \in 1..Len(Calls) :
              /\ k <= Len(updates)
              /\ Calls[k].num = updates[k].message.chat_id
              /\ Calls[k].text \in ReplyTexts(updates[k])
              /\ Calls[k].parse_mode = HTML
              /\ Calls[k].disable_web_page_preview
              /\ Calls[k].disable_notification

\* The failure of get_updates has been logged in the current iteration
PollFailed == \E j \in 1..Len(log) : log[j].ev = "error_get_updates"

\* C4: an iteration whose get_updates raises TelegramApiError consists of
\* the poll request, carrying the stored offset, the log record and the
\* sleep of 10 seconds, and of nothing else: no update is gone through, no
\* reply is sent, the offset file is not written and holds what it held, and
\* the while loop goes on to the next poll.
C4_PollFailureOnlySleeps ==
    /\ PollFailed =>
          /\ pc = "loop"
          /\ Len(log) = 3
          /\ log[1] = [Event("post_getUpdates", offset) EXCEPT
                          !.limit = TELEGRAM_UPDATES_LIMIT,
                          !.timeout = DEFAULT_TELEGRAM_API_LONG_POLLING_TIMEOUT]
          /\ log[2].ev = "error_get_updates"
          /\ IsSubclass(log[2].exc, "TelegramApiError")
          /\ log[3] = Event("sleep", 10)
          /\ updates = <<>>
          /\ idx = 0
          /\ exit_status = -1
    /\ PollCarriesStoredOffset

\* C4, witness: a poll has failed in an iteration that follows one that
\* moved the offset to 3, and the offset is still 3.
C4_Witness ==
    /\ pc = "loop"
    /\ PollFailed
    /\ log[1].num = 3
    /\ offset = 3

\* The words of the text of the i-th update of the batch
Words(i) == StrSplit(updates[i].message.text, " ")

\* The i-th update of the batch names no command the bot has
UnknownCommand(i) ==
    /\ updates[i].message.text # <<>>
    /\ Words(i)[1] \notin CommandNames

\* The i-th update of the batch is /show with one argument that has a
\* character no integer literal has
ShowOfNoInteger(i) ==
    /\ Len(Words(i)) = 2
    /\ Words(i)[1] = SHOW_COMMAND
    /\ \E k \in 1..Len(Words(i)[2]) :
          ~IsDigit(Words(i)[2][k]) /\ Words(i)[2][k] \notin {"+", "-", "_"}

\* The i-th update of the batch is /timestamp with one argument that has
\* no date in it
TimestampOfNoDate(i) ==
    /\ Len(Words(i)) = 2
    /\ Words(i)[1] = TIMESTAMP_COMMAND
    /\ \A k \in 1..Len(Words(i)[2]) : Words(i)[2][k] # "-"

\* C5: a command that is unknown or has invalid arguments, and a /show
\* whose search fails with GithubApiError, never end main; the message
\* gets its call of send_message, with the message of the command error,
\* or, after GithubApiError has been logged, with the apology; and the for
\* loop goes on to the next update.
C5_KnownErrorsAreReplied ==
    /\ \A j \in 1..Len(log) :
          /\ log[j].ev = "traceback" =>
                log[j].exc \notin {"InvalidCommand", "ParseError", "GithubApiError"}
          /\ (log[j].ev = "error_executing" /\ log[j].exc = "GithubApiError") =>
                /\ j < Len(log)
                /\ log[j + 1].ev = "send_message"
                /\ log[j + 1].text = OOPS_TEXT
    /\ (pc = "crashed" /\ idx < Len(updates)) =>
          /\ ~UnknownCommand(idx + 1)
          /\ ~ShowOfNoInteger(idx + 1)
          /\ ~TimestampOfNoDate(idx + 1)
    /\ Len(Calls) = WithMessageUpTo(idx)
    /\ \A i \in 1..idx :
          ~updates[i].message.is_none =>
             LET call == Calls[WithMessageUpTo(i)]
             IN  /\ call.num = updates[i].message.chat_id
                 /\ UnknownCommand(i) =>
                       call.text = UNKNOWN_PREFIX \o Words(i)[1] \o UNKNOWN_SUFFIX
                 /\ ShowOfNoInteger(i) =>
                       call.text = Words(i)[2] \o SHOULD_BE_INT_SUFFIX
                 /\ TimestampOfNoDate(i) => call.text = USAGE_STRING

\* C5, witness: the first message of a batch of two was an unknown command
\* and the second a /show whose search failed with GithubApiError; both
\* have been replied to and the offset has been written.
C5_Witness ==
    /\ pc = "loop"
    /\ Written
    /\ Len(updates) = 2
    /\ ~updates[1].message.is_none
    /\ ~updates[2].message.is_none
    /\ UnknownCommand(1)
    /\ updates[2].message.text = SHOW_COMMAND
    /\ Len(Calls) = 2
    /\ Calls[2].text = OOPS_TEXT
    /\ \E j \in 1..Len(log) :
          log[j].ev = "error_executing" /\ log[j].exc = "GithubApiError"

\* C6: no execution of a command ends main: the for loop is never left
\* before the last update of the batch.
C6_NoCommandEndsMain ==
    ~(pc = "crashed" /\ idx < Len(updates))

\* C7: a call of send_message that raises TelegramApiError has issued its
\* POST once; the failure is logged, main sleeps 10 seconds, and nothing
\* issues that POST again: the for loop goes on to the next update, every
\* message it has been through has got one call, and the offset written
\* after the batch is greater than the update_id of every update of it.
C7_FailedReplyIsDropped ==
    /\ \A j \in 1..Len(log) :
          /\ log[j].ev = "error_send_message" =>
                /\ j > 2
                /\ log[j - 1].ev = "post_sendMessage"
                /\ log[j - 2].ev = "send_message"
                /\ log[j - 1].num = log[j - 2].num
                /\ log[j - 1].text = log[j - 2].text
                /\ j < Len(log)
                /\ log[j + 1] = Event("sleep", 10)
          /\ log[j].ev = "post_sendMessage" =>
                /\ j > 1
                /\ log[j - 1].ev = "send_message"
    /\ Len(Calls) = WithMessageUpTo(idx)
    /\ Written =>
          /\ idx = Len(updates)
          /\ \A i \in 1..Len(updates) : offset > updates[i].update_id

\* C7, witness: the reply to the first message of a batch of two failed,
\* the second message got its reply, and the offset written is 3.
C7_Witness ==
    /\ pc = "loop"
    /\ Written
    /\ Len(updates) = 2
    /\ Len(Calls) = 2
    /\ log[4].ev = "error_send_message"
    /\ log[3].num = updates[1].message.chat_id
    /\ log[Len(log) - 1].ev = "post_sendMessage"
    /\ log[Len(log) - 1].num = updates[2].message.chat_id
    /\ offset = 3

\* C10: a call of send_message with empty text issues no request and
\* raises nothing, however the POST would have ended; a call with a text
\* issues one POST, with the chat id, the text, the parse mode and the two
\* flags of the call.
C10_EmptyTextSendsNothing ==
    \A j \in 1..Len(log) :
        /\ log[j].ev = "send_message" =>
              IF log[j].text = <<>>
              THEN j < Len(log) =>
                       log[j + 1].ev \notin {"post_sendMessage", "error_send_message"}
              ELSE /\ j < Len(log)
                   /\ log[j + 1] = [log[j] EXCEPT !.ev = "post_sendMessage"]
                   /\ j + 1 < Len(log) => log[j + 2].ev # "post_sendMessage"
        /\ log[j].ev = "post_sendMessage" =>
              /\ j > 1
              /\ log[j - 1].ev = "send_message"
              /\ log[j - 1].text # <<>>

\* C10, witness: a batch of two has got a call with empty text (the reply
\* to /echo), which issued nothing, and a call with a text, which issued
\* its POST.
C10_Witness ==
    /\ Len(Calls) = 2
    /\ Calls[1].text = <<>>
    /\ Calls[2].text # <<>>
    /\ Len(SelectSeq(log, LAMBDA e : e.ev = "post_sendMessage")) = 1

\* The getUpdates answer of the current iteration has a result list
Answered ==
    /\ response.net = "ok"
    /\ response.is_json
    /\ response.data.kind = "dict"
    /\ response.data.result.kind = "list"

\* The items of that list
RawItems == response.data.result.elems

\* item is an object with an integer update_id
HasUpdateId(item) == item.kind = "dict" /\ item.update_id.kind = "int"

\* item has a message object with a chat that has an integer id, an
\* integer message_id and, if it has a text, a str for it
WellFormedMessage(item) ==
    /\ item.message.kind = "dict"
    /\ item.message.chat.kind = "dict"
    /\ item.message.chat.id.kind = "int"
    /\ item.message.message_id.kind = "int"
    /\ item.message.text.kind \in {"str", "absent"}

\* What the for loop has done, update by update: a call of send_message or
\* the log record of an update without a message
Steps == SelectSeq(log, LAMBDA e : e.ev \in {"send_message", "info_no_message"})

\* C8: when every item of the result list has an integer update_id,
\* get_updates returns one entry per item, in order and with the item's
\* update_id, whose message is None exactly when the item has no
\* well-formed message; for such an entry the for loop only logs, for any
\* other it calls send_message for the chat of the message; and the offset
\* written after the batch is the largest update_id of the items plus one.
C8_MalformedItemIsSkipped ==
    (Answered /\ \A i \in 1..Len(RawItems) : HasUpdateId(RawItems[i])) =>
        /\ ~PollFailed
        /\ Len(updates) = Len(RawItems)
        /\ \A i \in 1..Len(updates) :
              /\ updates[i].update_id = RawItems[i].update_id.int
              /\ updates[i].message.is_none <=> ~WellFormedMessage(RawItems[i])
              /\ ~updates[i].message.is_none =>
                    /\ updates[i].message.chat_id = RawItems[i].message.chat.id.int
                    /\ updates[i].message.message_id = RawItems[i].message.message_id.int
        /\ Len(Steps) = idx
        /\ \A i \in 1..idx :
              IF updates[i].message.is_none
              THEN Steps[i] = Event("info_no_message", updates[i].update_id)
              ELSE /\ Steps[i].ev = "send_message"
                   /\ Steps[i].num = updates[i].message.chat_id
        /\ (Written /\ RawItems # <<>>) =>
              offset = MaxOf({RawItems[i].update_id.int : i \in 1..Len(RawItems)}) + 1

\* C8, witness: the first item of a result list of two has a message
\* without a chat, the second one is well formed; the first entry has been
\* skipped, the second one replied to, and the offset written is 3.
C8_Witness ==
    /\ Answered
    /\ Written
    /\ Len(RawItems) = 2
    /\ RawItems[1].message.kind = "dict"
    /\ RawItems[1].message.chat.kind = "absent"
    /\ WellFormedMessage(RawItems[2])
    /\ updates[1].message.is_none
    /\ Len(Calls) = 1
    /\ Calls[1].num = RawItems[2].message.chat.id.int
    /\ offset = 3

\* C9: an item whose well-formed message has no text key becomes a message
\* whose text is the empty str; and the reply to a message whose text is
\* empty is the call of send_message with the apology for its text: no
\* ParseError reaches the handlers of main.
C9_NoTextIsApologised ==
    /\ (Answered /\ \A i \in 1..Len(RawItems) : HasUpdateId(RawItems[i])) =>
          /\ Len(updates) = Len(RawItems)
          /\ \A i \in 1..Len(updates) :
                (WellFormedMessage(RawItems[i]) /\ RawItems[i].message.text.kind = "absent") =>
                    /\ ~updates[i].message.is_none
                    /\ updates[i].message.text = <<>>
    /\ Len(Calls) = WithMessageUpTo(idx)
    /\ \A i \in 1..idx :
          (~updates[i].message.is_none /\ updates[i].message.text = <<>>) =>
              /\ Calls[WithMessageUpTo(i)].num = updates[i].message.chat_id
              /\ Calls[WithMessageUpTo(i)].text = OOPS_TEXT
    /\ \A j \in 1..Len(log) : log[j].exc # "ParseError"

\* C9, witness: the one item of a result list has a message without a
\* text key, and its reply, the apology, has been posted.
C9_Witness ==
    /\ Answered
    /\ Len(RawItems) = 1
    /\ WellFormedMessage(RawItems[1])
    /\ RawItems[1].message.text.kind = "absent"
    /\ idx = 1
    /\ Len(Calls) = 1
    /\ Calls[1].text = OOPS_TEXT
    /\ log[Len(log)].ev = "post_sendMessage"
    /\ log[Len(log)].text = OOPS_TEXT

\* What the log says the call that issued the request log[j - 1] raised:
\* the exception main logged, or the one that ended it
RaisedAfter(j) ==
    IF log[j].ev \in {"error_get_updates", "error_executing", "traceback"}
    THEN log[j].exc ELSE "none"

\* C11: whatever TelegramApi.get_updates raises after its request is
\* TelegramApiError, and whatever GithubApi.find_trending_repositories
\* raises after its request is GithubApiError: no other exception leaves
\* the two clients, whatever the answer to the request is.
C11_ClientsRaiseTheirOwnError ==
    /\ (updates = <<>> /\ Len(log) >= 2 /\ log[1].ev = "post_getUpdates") =>
          RaisedAfter(2) \in {"none", "TelegramApiError"}
    /\ \A j \in 2..Len(log) :
          log[j - 1].ev = "github_get" =>
              RaisedAfter(j) \in {"none", "GithubApiError"}

\* C12: execute of a name the mapping does not have raises InvalidCommand,
\* whose message has the name in it, and no handler has run: nothing is
\* requested, nothing is stored.  execute of a name the mapping has gives
\* what the handler of that name gives for the same args, its return value
\* or its exception, with the requests of one run of the handler.
C12_ExecuteDispatches ==
    applied.fn = "execute" =>
        LET name   == applied.name
            args   == applied.args
            world  == applied.world
            result == applied.result
        IN  /\ name \notin CommandNames =>
                  /\ result.exc = "InvalidCommand"
                  /\ result.text = UNKNOWN_PREFIX \o name \o UNKNOWN_SUFFIX
                  /\ result.events = <<>>
                  /\ result.cache = world.cache
            /\ name \in {HELP_COMMAND, START_COMMAND} =>
                  /\ result.exc = "none"
                  /\ result.text = HELP_TEXT
                  /\ result.events = <<>>
            /\ name = ECHO_COMMAND =>
                  /\ result.exc = "none"
                  /\ result.text = StrJoin(<<"\n">>, args)
                  /\ result.events = <<>>
            /\ name = SHOW_COMMAND => result = GithubShowCommand(args, world)
            /\ name = TIMESTAMP_COMMAND => result = TimestampCommand(args, world)
            /\ Len(result.events) <= 1

\* C12, witness: /show has been executed with one argument, 3, and has
\* returned what the handler made of the search answer, after one request.
C12_Witness ==
    /\ applied.fn = "execute"
    /\ applied.name = SHOW_COMMAND
    /\ applied.args = << <<"3">> >>
    /\ applied.result.exc = "none"
    /\ Len(applied.result.events) = 1
    /\ applied.result.text # <<>>

\* The words int() accepts among those the args are drawn from, each with
\* its value
IntegerWords ==
    { [word |-> <<"3">>, value |-> 3],
      [word |-> <<"-", "1">>, value |-> 0 - 1],
      [word |-> <<"+", "7">>, value |-> 7],
      [word |-> <<"1", "_", "0">>, value |-> 10],
      [word |-> <<"1", "0", "0", "0", "0", "0", "0", "0", "0", "0">>,
       value |-> 1000000000] }

\* The call of the show handler that has been made gives what
\* find_trending_repositories gives for age: its exception, or the rendering
\* of its list, with its requests and the cache it leaves.  A request it
\* issues asks for what was created after the day age days ago.
ShowLooksUp(age) ==
    LET world  == applied.world
        result == applied.result
        looked == find_trending_repositories(age, world.cache, world.expired,
                                             world.response)
    IN  /\ result.exc = looked.exc
        /\ result.cache = looked.cache
        /\ result.events = looked.events
        /\ result.exc = "none" => result.text = format_html_message(looked.repos)
        /\ \A j \in 1..Len(result.events) :
              /\ result.events[j].ev = "github_get"
              /\ result.events[j].num = UtcNow.ordinal - age

\* C13: the show handler called without args looks the repositories of age
\* 7 up; called with one arg that is an integer, the repositories of that
\* age; called with two args or more, or with one arg that is no integer
\* (the empty str is none), it raises InvalidCommand and looks nothing up:
\* no request is issued and the cache is left as it was.
C13_ShowAgeInDays ==
    applied.fn = "show" =>
        LET args   == applied.args
            result == applied.result
            values == {i.value : i \in {w \in IntegerWords : args = <<w.word>>}}
        IN  /\ args = <<>> => ShowLooksUp(7)
            /\ \A value \in values : ShowLooksUp(value)
            /\ (args # <<>> /\ values = {}) =>
                  /\ result.exc = "InvalidCommand"
                  /\ result.events = <<>>
                  /\ result.cache = applied.world.cache

\* C13, witness: the handler has been called with the one arg 3, the
\* cache holding nothing for that age, and has asked the search API for the
\* repositories created in the last 3 days.
C13_Witness ==
    /\ applied.fn = "show"
    /\ applied.args = << <<"3">> >>
    /\ applied.result.exc = "none"
    /\ Len(applied.result.events) = 1
    /\ applied.result.events[1].num = UtcNow.ordinal - 3

\* os.environ has both keys
HasBothTokens == {"GITHUB_TOKEN", "TELEGRAM_TOKEN"} \subseteq DOMAIN environ

\* C14: with both keys in the environment get_config returns the Config
\* of their two values, and main goes on with it; with a key missing
\* get_config raises InvalidConfig, whose message names a key that is
\* missing, and main exits with status 1 before it has issued a request,
\* called send_message or written the offset.
C14_MissingKeyExits ==
    /\ pc \notin {"start", "exited"} =>
          /\ HasBothTokens
          /\ get_config(environ).exc = "none"
          /\ config = get_config(environ).config
          /\ config.github_token = environ["GITHUB_TOKEN"]
          /\ config.telegram_token = environ["TELEGRAM_TOKEN"]
    /\ (pc # "start" /\ ~HasBothTokens) =>
          /\ pc = "exited"
          /\ get_config(environ).exc = "InvalidConfig"
          /\ \E key \in {"GITHUB_TOKEN", "TELEGRAM_TOKEN"} \ DOMAIN environ :
                get_config(environ).text = KeyStr(key) \o IS_MISSING_SUFFIX
    /\ pc = "exited" =>
          /\ ~HasBothTokens
          /\ exit_status = 1
          /\ log = <<>>
          /\ updates = <<>>
          /\ offset \in InitialOffsets
    /\ pc \notin {"exited", "crashed"} => exit_status = -1

\* C14, witness: the environment has GITHUB_TOKEN and no TELEGRAM_TOKEN,
\* and the process has exited with status 1.
C14_Witness ==
    /\ pc = "exited"
    /\ DOMAIN environ = {"GITHUB_TOKEN"}
    /\ exit_status = 1
    /\ log = <<>>

\* C15: parse_message_text raises ParseError for the empty text and for no
\* other; for any other text the name and the args, joined with single
\* spaces, are the text again, no token has a space in it, and there is
\* one arg for every space of the text: the text has been split at each
\* single space, empty tokens being kept.
C15_ParseSplitsOnEachSpace ==
    applied.fn = "parse_message_text" =>
        LET text   == applied.text
            result == applied.result
            tokens == <<result.name>> \o result.args
        IN  /\ result.exc = "ParseError" <=> text = <<>>
            /\ text # <<>> =>
                  /\ result.exc = "none"
                  /\ StrJoin(<<" ">>, tokens) = text
                  /\ \A t \in 1..Len(tokens) :
                        \A k \in 1..Len(tokens[t]) : tokens[t][k] # " "
                  /\ Len(result.args) =
                        Cardinality({k \in 1..Len(text) : text[k] = " "})

\* C15, witness: a text with a leading space and two consecutive spaces
\* has been parsed into an empty name and three args, one of them empty.
C15_Witness ==
    /\ applied.fn = "parse_message_text"
    /\ applied.text = <<" ", "/", " ", " ">>
    /\ applied.result.name = <<>>
    /\ applied.result.args = << <<"/">>, <<>>, <<>> >>

\* An iteration in the order of the code: one poll request, first; then
\* one step per update, while the offset file holds what the poll carried;
\* then, all updates being through, one write of the offset, last.
SequentialIteration ==
    /\ \A j \in 1..Len(log) :
          /\ log[j].ev = "post_getUpdates" => j = 1
          /\ log[j].ev = "write_offset" =>
                /\ j = Len(log)
                /\ log[1].ev = "post_getUpdates"
                /\ idx = Len(updates)
                /\ Len(Steps) = Len(updates)
                /\ pc = "loop"
    /\ (pc = "loop" /\ ~PollFailed) => Written
    /\ pc = "for" => ~Written /\ Len(Steps) = idx
    /\ (pc \in {"for", "crashed"} /\ log # <<>>) => offset = log[1].num
    /\ pc = "poll" => log = <<>>

\* The offset file changes in the step after the for loop and in no other,
\* and the next poll starts from a finished iteration
OffsetWrittenAfterBatch ==
    /\ offset' # offset =>
          /\ pc = "for"
          /\ idx = Len(updates)
          /\ pc' = "loop"
          /\ log' = Append(log, Event("write_offset", offset'))
    /\ (pc # "poll" /\ pc' = "poll") => pc \in {"start", "loop"}
    /\ (pc = "loop" /\ pc' = "poll") => (Written \/ PollFailed) /\ offset' = offset

\* C16: an iteration of main is sequential: the offset is written once per
\* batch, after every update of the batch has got its reply or been
\* skipped, and before the next poll; it is not written inside the for
\* loop, so that when the process stops inside the loop the file holds the
\* offset the batch was polled with.
C16_OneWritePerBatch ==
    []SequentialIteration /\ [][OffsetWrittenAfterBatch]_vars

\* C16, witness: a batch of two polled with offset 0 has been gone
\* through, one update skipped and one replied to, and the offset has then
\* been written, once.
C16_Witness ==
    /\ pc = "loop"
    /\ Written
    /\ log[1].num = 0
    /\ Len(updates) = 2
    /\ Len(Steps) = 2
    /\ Steps[1].ev = "info_no_message"
    /\ Steps[2].ev = "send_message"
    /\ Len(SelectSeq(log, LAMBDA e : e.ev = "write_offset")) = 1
    /\ offset = 3

====
